---- MODULE Spec2Model ----
(***************************************************************************)
(* Star Wars REST API: the relational store of models.py and the request   *)
(* handlers of app.py.                                                     *)
(*                                                                         *)
(* The store is five tables.  Every mutating handler is two steps: the     *)
(* reads and validations it runs before touching the session, and the      *)
(* db.session.commit() that flushes its unit of work in one transaction.   *)
(* Requests of different workers interleave between these two steps.       *)
(*                                                                         *)
(* Columns: Character keeps name, homeworld_id and created_at; Planet      *)
(* keeps name, climate and created_at.  climate stands for the free-form   *)
(* string columns of both tables, which the handlers all write by the same *)
(* code pattern.                                                           *)
(* User rows are kept by id only: no handler reads another User column     *)
(* that matters to the store.                                              *)
(***************************************************************************)
EXTENDS Integers, FiniteSets, Sequences, TLC

(* ------------------------------ bounds -------------------------------- *)
\* number of operations (requests and admin edits) issued in one behaviour
MaxOps == 2
\* number of requests that can be in flight at once
NumWorkers == 2

Workers == 1..NumWorkers

(* ------------------------------ values -------------------------------- *)
\* SQL NULL / JSON null in a string column, and in an integer column
Null == "<null>"
NullId == 0
\* key not present in the JSON body (string-valued key, integer-valued key)
Absent == "<absent>"
AbsentId == -1

\* JSON values a body may carry under each key
CharacterNames == {Null, "", "Luke", "Leia"}
PlanetNames == {Null, "", "Tatooine", "Alderaan"}
Climates == {"arid"}
Homeworlds == {1}

CharacterBodies ==
  [name : CharacterNames \cup {Absent},
   homeworld_id : Homeworlds \cup {AbsentId}]

PlanetBodies ==
  [name : PlanetNames \cup {Absent},
   climate : Climates \cup {Absent}]

NoCharacterBody == [name |-> Absent, homeworld_id |-> AbsentId]
NoPlanetBody == [name |-> Absent, climate |-> Absent]

\* Python truthiness of request.get_json(): None and {} are falsy
CharacterBodyTruthy(body) == body # NoCharacterBody
PlanetBodyTruthy(body) == body # NoPlanetBody

\* Python truthiness of body.get('name'): missing, null and "" are falsy
NameTruthy(v) == v \notin {Absent, Null, ""}

\* body.get(key): None when the key is missing
Get(v) == IF v = Absent THEN Null ELSE v
GetId(v) == IF v = AbsentId THEN NullId ELSE v

Max(S) == IF S = {} THEN 0 ELSE CHOOSE x \in S : \A y \in S : y <= x

(* ------------------------------ state --------------------------------- *)
VARIABLES
  backend,              \* store selected by DATABASE_URL
  users,                \* ids of the rows of table users
  characters,           \* rows of table characters
  planets,              \* rows of table planets
  favorite_characters,  \* rows of table favorite_characters
  favorite_planets,     \* rows of table favorite_planets
  seq,                  \* postgresql id sequences, one per table
  now,                  \* logical time: operations issued so far
  req,                  \* per worker: the request it runs and its response
  admin                 \* the last edit of the users table, until the next operation

tables == <<users, characters, planets, favorite_characters, favorite_planets>>
vars == <<backend, users, characters, planets, favorite_characters,
          favorite_planets, seq, now, req, admin>>

current_user_id == 1

NoData == [none |-> TRUE]
NoRow == [id |-> 0]
NoAdmin == [op |-> "none", id |-> 0, cascaded |-> 0]

Idle == [pc |-> "idle", op |-> "none", id |-> 0, cbody |-> NoCharacterBody,
         pbody |-> NoPlanetBody, loaded |-> NoRow,
         status |-> 0, msg |-> "", data |-> NoData]

\* rows an earlier run left in the store: two users, one character, one planet
SeedCharacter == [id |-> 1, name |-> "Luke", homeworld_id |-> NullId,
                  created_at |-> 0]
SeedPlanet == [id |-> 1, name |-> "Tatooine", climate |-> Null, created_at |-> 0]

\* favorites an earlier run left: user 1 has the seed character and the seed
\* planet as favorites, user 2 the seed planet
SeedFavoriteCharacters ==
  {[id |-> 1, user_id |-> 1, character_id |-> 1, created_at |-> 0]}
SeedFavoritePlanets ==
  {[id |-> 1, user_id |-> 2, planet_id |-> 1, created_at |-> 0],
   [id |-> 2, user_id |-> 1, planet_id |-> 1, created_at |-> 0]}

\* the store is freshly created, or holds the seed rows, or the seed rows
\* and the seed favorites
Init ==
  /\ backend \in {"sqlite", "postgresql"}
  /\ \E seeded \in {"none", "catalog", "favorites"} :
       /\ users = IF seeded # "none" THEN {1, 2} ELSE {}
       /\ characters = IF seeded # "none" THEN {SeedCharacter} ELSE {}
       /\ planets = IF seeded # "none" THEN {SeedPlanet} ELSE {}
       /\ favorite_characters =
            IF seeded = "favorites" THEN SeedFavoriteCharacters ELSE {}
       /\ favorite_planets =
            IF seeded = "favorites" THEN SeedFavoritePlanets ELSE {}
       /\ seq = [t \in {"users", "characters", "planets",
                        "favorite_characters", "favorite_planets"} |->
                  IF backend = "postgresql" /\ seeded # "none"
                  THEN (IF t = "users" THEN 2
                        ELSE IF t \in {"characters", "planets"} THEN 1
                        ELSE IF seeded = "catalog" THEN 0
                        ELSE IF t = "favorite_characters" THEN 1 ELSE 2)
                  ELSE 0]
  /\ now = 0
  /\ req = [w \in Workers |-> Idle]
  /\ admin = NoAdmin

(* ------------------------------ the store ----------------------------- *)
\* app.py: DATABASE_URL set selects postgresql, else the sqlite file.  The
\* sqlite connection never issues PRAGMA foreign_keys, so only postgresql
\* enforces the ForeignKey columns.
ForeignKeysEnforced == backend = "postgresql"

\* the autoincrement primary key: sqlite takes max(rowid)+1, postgresql the
\* next value of the table's sequence
NextId(table, rows) ==
  IF backend = "sqlite" THEN Max({r.id : r \in rows}) + 1 ELSE seq[table] + 1

AdvanceSeq(table) ==
  IF backend = "postgresql" THEN [seq EXCEPT ![table] = @ + 1] ELSE seq

Ids(rows) == {r.id : r \in rows}

\* Character.name / Planet.name: nullable=False (and nothing else)
NameConstraint_off(rows) == TRUE
NameConstraint(rows) == \A r \in rows : r.name # Null

\* Character.homeworld_id: ForeignKey('planets.id'), nullable
HomeworldConstraint(cs, ps) ==
  ForeignKeysEnforced =>
    \A c \in cs : c.homeworld_id = NullId \/ c.homeworld_id \in Ids(ps)

\* FavoriteCharacter.user_id, character_id: ForeignKey, nullable=False
FavoriteCharacterColumns(fcs, us, cs) ==
  /\ \A f \in fcs : f.user_id # NullId /\ f.character_id # NullId
  /\ ForeignKeysEnforced =>
       \A f \in fcs : f.user_id \in us /\ f.character_id \in Ids(cs)

\* FavoritePlanet.user_id, planet_id: ForeignKey, nullable=False
FavoritePlanetColumns(fps, us, ps) ==
  /\ \A f \in fps : f.user_id # NullId /\ f.planet_id # NullId
  /\ ForeignKeysEnforced =>
       \A f \in fps : f.user_id \in us /\ f.planet_id \in Ids(ps)

\* UniqueConstraint('user_id', 'character_id', name='unique_user_character')
unique_user_character_off(fcs) == TRUE
unique_user_character(fcs) ==
  \A f, g \in fcs :
    (f.user_id = g.user_id /\ f.character_id = g.character_id) => f.id = g.id

\* UniqueConstraint('user_id', 'planet_id', name='unique_user_planet')
unique_user_planet(fps) ==
  \A f, g \in fps :
    (f.user_id = g.user_id /\ f.planet_id = g.planet_id) => f.id = g.id

\* what the store accepts at commit: every declared constraint of models.py
Accepts(us, cs, ps, fcs, fps) ==
  /\ NameConstraint(cs)
  /\ NameConstraint(ps)
  /\ HomeworldConstraint(cs, ps)
  /\ FavoriteCharacterColumns(fcs, us, cs)
  /\ FavoritePlanetColumns(fps, us, ps)
  /\ unique_user_character(fcs)
  /\ unique_user_planet(fps)

\* db.session.commit(): the flushed tables become the store
Commit(us, cs, ps, fcs, fps) ==
  /\ users' = us
  /\ characters' = cs
  /\ planets' = ps
  /\ favorite_characters' = fcs
  /\ favorite_planets' = fps

\* db.session.rollback(): the flushed tables are dropped
rollback_keeps_flush(us, cs, ps, fcs, fps) == Commit(us, cs, ps, fcs, fps)
rollback(us, cs, ps, fcs, fps) ==
  UNCHANGED <<users, characters, planets, favorite_characters, favorite_planets>>

\* try: ... db.session.commit()  except Exception: db.session.rollback()
CommitOrRollback(us, cs, ps, fcs, fps) ==
  IF Accepts(us, cs, ps, fcs, fps)
  THEN Commit(us, cs, ps, fcs, fps)
  ELSE rollback(us, cs, ps, fcs, fps)

(* --------------------------- serialization ---------------------------- *)
\* datetime.isoformat() of a logical timestamp
isoformat(t) == <<"iso", t>>

\* Planet.serialize
PlanetSerialize(p) ==
  [id |-> p.id, name |-> p.name, climate |-> p.climate,
   created_at |-> isoformat(p.created_at)]

\* Character.serialize: homeworld embeds the planet row, else null
CharacterSerialize(c, ps) ==
  [id |-> c.id, name |-> c.name,
   homeworld |-> IF \E p \in ps : p.id = c.homeworld_id
                 THEN PlanetSerialize(CHOOSE p \in ps : p.id = c.homeworld_id)
                 ELSE NoData,
   created_at |-> isoformat(c.created_at)]

\* FavoriteCharacter.serialize
FavoriteCharacterSerialize(f, cs, ps) ==
  [id |-> f.id, user_id |-> f.user_id, character_id |-> f.character_id,
   character |-> IF \E c \in cs : c.id = f.character_id
                 THEN CharacterSerialize(CHOOSE c \in cs : c.id = f.character_id, ps)
                 ELSE NoData,
   created_at |-> isoformat(f.created_at)]

\* FavoritePlanet.serialize
FavoritePlanetSerialize(f, ps) ==
  [id |-> f.id, user_id |-> f.user_id, planet_id |-> f.planet_id,
   planet |-> IF \E p \in ps : p.id = f.planet_id
              THEN PlanetSerialize(CHOOSE p \in ps : p.id = f.planet_id)
              ELSE NoData,
   created_at |-> isoformat(f.created_at)]

(* ----------------------------- requests ------------------------------- *)
\* the server hands an arriving request to its first worker not in a request
Free(w) ==
  /\ now < MaxOps
  /\ req[w].pc # "commit"
  /\ \A v \in Workers : v < w => req[v].pc = "commit"

\* responses already returned are gone when the next operation arrives
Sent == [v \in Workers |-> IF req[v].pc = "done" THEN Idle ELSE req[v]]

\* a request arrives at worker w
Arrive(w, op, id, cbody, pbody) ==
  [Idle EXCEPT !.op = op, !.id = id, !.cbody = cbody, !.pbody = pbody]

\* return jsonify(...), status
Respond(w, r, status, msg, data) ==
  req' = [(IF r.pc = "idle" THEN Sent ELSE req) EXCEPT
            ![w] = [r EXCEPT !.pc = "done", !.status = status,
                             !.msg = msg, !.data = data]]

\* the handler goes on to db.session.add/delete and commit
Proceed(w, r, loaded) ==
  req' = [Sent EXCEPT ![w] = [r EXCEPT !.pc = "commit", !.loaded = loaded]]

Reads == /\ now' = now + 1
         /\ admin' = NoAdmin
         /\ UNCHANGED <<backend, users, characters, planets,
                        favorite_characters, favorite_planets, seq>>

\* ids a request path may name: every id in use and the first one that is not
PathIds == 1..(Max(Ids(characters) \cup Ids(planets)) + 1)

\* User.query.get(id) finds a row
UserGet_any(id) == TRUE
UserGet(id) == id \in users

\* Character.query.get(id), Planet.query.get(id): the rows with that key
CharacterGet(id) == {c \in characters : c.id = id}
PlanetGet(id) == {p \in planets : p.id = id}

\* Character.query.filter_by(name=...), Planet.query.filter_by(name=...)
CharacterByName_none(name) == {}
CharacterByName(name) == {c \in characters : c.name = name}
PlanetByName(name) == {p \in planets : p.name = name}

\* FavoriteCharacter.query.filter_by(user_id=..., character_id=...)
FavoriteCharacterBy_none(user_id, character_id) == {}
FavoriteCharacterBy(user_id, character_id) ==
  {f \in favorite_characters :
     f.user_id = user_id /\ f.character_id = character_id}

\* FavoritePlanet.query.filter_by(user_id=..., planet_id=...)
FavoritePlanetBy_none(user_id, planet_id) == {}
FavoritePlanetBy(user_id, planet_id) ==
  {f \in favorite_planets : f.user_id = user_id /\ f.planet_id = planet_id}

AtCommit(w, op) == req[w].pc = "commit" /\ req[w].op = op

\* the commit of worker w's unit of work: the flushed tables are accepted and
\* the handler returns its success response, or the store raises, the
\* handler rolls back and returns 500 with str(e)
Transaction(w, us, cs, ps, fcs, fps, status, msg, data) ==
  /\ CommitOrRollback(us, cs, ps, fcs, fps)
  /\ IF Accepts(us, cs, ps, fcs, fps)
     THEN Respond(w, req[w], status, msg, data)
     ELSE Respond(w, req[w], 500, "IntegrityError", NoData)

\* the handler raises before anything is flushed
Raise(w, msg) ==
  /\ rollback(users, characters, planets, favorite_characters, favorite_planets)
  /\ Respond(w, req[w], 500, msg, NoData)

(* ------------------------- Character handlers ------------------------- *)
\* POST /people, up to the by-name pre-check
create_person(w) ==
  /\ Free(w)
  /\ Reads
  /\ \E body \in CharacterBodies :
      LET r == Arrive(w, "create_person", 0, body, NoPlanetBody) IN
       IF ~CharacterBodyTruthy(body)
       THEN Respond(w, r, 400, "Request body is required", NoData)
       ELSE IF ~NameTruthy(body.name)
       THEN Respond(w, r, 400, "Name is required", NoData)
       ELSE IF CharacterByName(body.name) # {}
       THEN Respond(w, r, 400, "Character with this name already exists", NoData)
       ELSE Proceed(w, r, NoRow)

\* POST /people: db.session.add(character); db.session.commit()
create_person_commit(w) ==
  /\ AtCommit(w, "create_person")
  /\ LET body == req[w].cbody
         character == [id |-> NextId("characters", characters),
                       name |-> Get(body.name),
                       homeworld_id |-> GetId(body.homeworld_id),
                       created_at |-> now]
     IN Transaction(w, users, characters \cup {character}, planets,
                    favorite_characters, favorite_planets,
                    201, "", CharacterSerialize(character, planets))
  /\ seq' = AdvanceSeq("characters")
  /\ UNCHANGED <<backend, now, admin>>

\* PUT /people/<id>, up to the body check
update_person(w) ==
  /\ Free(w)
  /\ Reads
  /\ \E people_id \in PathIds, body \in CharacterBodies :
      LET r == Arrive(w, "update_person", people_id, body, NoPlanetBody) IN
       IF CharacterGet(people_id) = {}
       THEN Respond(w, [r EXCEPT !.cbody = NoCharacterBody],
                    404, "Character not found", NoData)
       ELSE IF ~CharacterBodyTruthy(body)
       THEN Respond(w, r, 400, "Request body is required", NoData)
       ELSE \E character \in CharacterGet(people_id) : Proceed(w, r, character)

\* the attributes update_person assigns: only keys present in the body
CharacterAssign_get(character, body) ==
  [character EXCEPT
     !.name = IF body.name # Absent THEN body.name ELSE @,
     !.homeworld_id = GetId(body.homeworld_id)]
CharacterAssign(character, body) ==
  [character EXCEPT
     !.name = IF body.name # Absent THEN body.name ELSE @,
     !.homeworld_id = IF body.homeworld_id # AbsentId THEN body.homeworld_id ELSE @]

\* the UPDATE the unit of work emits: the columns whose value differs from
\* the loaded one, on the row with the loaded primary key
CharacterFlush(cur, loaded, assigned) ==
  [cur EXCEPT
     !.name = IF assigned.name # loaded.name THEN assigned.name ELSE @,
     !.homeworld_id = IF assigned.homeworld_id # loaded.homeworld_id
                      THEN assigned.homeworld_id ELSE @]

\* PUT /people/<id>: db.session.commit(); character.serialize()
update_person_commit(w) ==
  /\ AtCommit(w, "update_person")
  /\ LET loaded == req[w].loaded
         assigned == CharacterAssign(loaded, req[w].cbody)
     IN IF ~\E c \in characters : c.id = loaded.id
        THEN Raise(w, IF assigned # loaded THEN "StaleDataError"
                                          ELSE "ObjectDeletedError")
        ELSE LET cur == CHOOSE c \in characters : c.id = loaded.id
                 new == CharacterFlush(cur, loaded, assigned)
             IN Transaction(w, users, (characters \ {cur}) \cup {new}, planets,
                            favorite_characters, favorite_planets,
                            200, "", CharacterSerialize(new, planets))
  /\ UNCHANGED <<backend, seq, now, admin>>

\* DELETE /people/<id>, up to the lookup
delete_person(w) ==
  /\ Free(w)
  /\ Reads
  /\ \E people_id \in PathIds :
      LET r == Arrive(w, "delete_person", people_id, NoCharacterBody, NoPlanetBody) IN
       IF CharacterGet(people_id) = {}
       THEN Respond(w, r, 404, "Character not found", NoData)
       ELSE \E character \in CharacterGet(people_id) : Proceed(w, r, character)

\* Character.favorite_by_users has no delete cascade: deleting the parent
\* sets character_id of its favorite rows to NULL
CharacterOrphans(fcs, id) ==
  {IF f.character_id = id THEN [f EXCEPT !.character_id = NullId] ELSE f : f \in fcs}

\* DELETE /people/<id>: db.session.delete(character); db.session.commit()
delete_person_commit(w) ==
  /\ AtCommit(w, "delete_person")
  /\ LET loaded == req[w].loaded IN
       Transaction(w, users, {c \in characters : c.id # loaded.id}, planets,
                   CharacterOrphans(favorite_characters, loaded.id),
                   favorite_planets,
                   200, "deleted successfully", [name |-> loaded.name])
  /\ UNCHANGED <<backend, seq, now, admin>>

(* --------------------------- Planet handlers -------------------------- *)
\* POST /planets, up to the by-name pre-check
create_planet(w) ==
  /\ Free(w)
  /\ Reads
  /\ \E body \in PlanetBodies :
      LET r == Arrive(w, "create_planet", 0, NoCharacterBody, body) IN
       IF ~PlanetBodyTruthy(body)
       THEN Respond(w, r, 400, "Request body is required", NoData)
       ELSE IF ~NameTruthy(body.name)
       THEN Respond(w, r, 400, "Name is required", NoData)
       ELSE IF PlanetByName(body.name) # {}
       THEN Respond(w, r, 400, "Planet with this name already exists", NoData)
       ELSE Proceed(w, r, NoRow)

\* POST /planets: db.session.add(planet); db.session.commit()
create_planet_commit(w) ==
  /\ AtCommit(w, "create_planet")
  /\ LET body == req[w].pbody
         planet == [id |-> NextId("planets", planets),
                    name |-> Get(body.name),
                    climate |-> Get(body.climate),
                    created_at |-> now]
     IN Transaction(w, users, characters, planets \cup {planet},
                    favorite_characters, favorite_planets,
                    201, "", PlanetSerialize(planet))
  /\ seq' = AdvanceSeq("planets")
  /\ UNCHANGED <<backend, now, admin>>

\* PUT /planets/<id>, up to the body check
update_planet(w) ==
  /\ Free(w)
  /\ Reads
  /\ \E planet_id \in PathIds, body \in PlanetBodies :
      LET r == Arrive(w, "update_planet", planet_id, NoCharacterBody, body) IN
       IF PlanetGet(planet_id) = {}
       THEN Respond(w, [r EXCEPT !.pbody = NoPlanetBody],
                    404, "Planet not found", NoData)
       ELSE IF ~PlanetBodyTruthy(body)
       THEN Respond(w, r, 400, "Request body is required", NoData)
       ELSE \E planet \in PlanetGet(planet_id) : Proceed(w, r, planet)

\* the attributes update_planet assigns: only keys present in the body
PlanetAssign(planet, body) ==
  [planet EXCEPT
     !.name = IF body.name # Absent THEN body.name ELSE @,
     !.climate = IF body.climate # Absent THEN body.climate ELSE @]

\* the UPDATE the unit of work emits for a planet
PlanetFlush(cur, loaded, assigned) ==
  [cur EXCEPT
     !.name = IF assigned.name # loaded.name THEN assigned.name ELSE @,
     !.climate = IF assigned.climate # loaded.climate THEN assigned.climate ELSE @]

\* PUT /planets/<id>: db.session.commit(); planet.serialize()
update_planet_commit(w) ==
  /\ AtCommit(w, "update_planet")
  /\ LET loaded == req[w].loaded
         assigned == PlanetAssign(loaded, req[w].pbody)
     IN IF ~\E p \in planets : p.id = loaded.id
        THEN Raise(w, IF assigned # loaded THEN "StaleDataError"
                                          ELSE "ObjectDeletedError")
        ELSE LET cur == CHOOSE p \in planets : p.id = loaded.id
                 new == PlanetFlush(cur, loaded, assigned)
             IN Transaction(w, users, characters, (planets \ {cur}) \cup {new},
                            favorite_characters, favorite_planets,
                            200, "", PlanetSerialize(new))
  /\ UNCHANGED <<backend, seq, now, admin>>

\* DELETE /planets/<id>, up to the lookup
delete_planet(w) ==
  /\ Free(w)
  /\ Reads
  /\ \E planet_id \in PathIds :
      LET r == Arrive(w, "delete_planet", planet_id, NoCharacterBody, NoPlanetBody) IN
       IF PlanetGet(planet_id) = {}
       THEN Respond(w, r, 404, "Planet not found", NoData)
       ELSE \E planet \in PlanetGet(planet_id) : Proceed(w, r, planet)

\* Planet.favorite_by_users has no delete cascade: deleting the parent sets
\* planet_id of its favorite rows to NULL
PlanetOrphans(fps, id) ==
  {IF f.planet_id = id THEN [f EXCEPT !.planet_id = NullId] ELSE f : f \in fps}

\* Character.homeworld, backref native_characters: deleting the planet sets
\* homeworld_id of its native characters to NULL
NativeCharacters(cs, id) ==
  {IF c.homeworld_id = id THEN [c EXCEPT !.homeworld_id = NullId] ELSE c : c \in cs}

\* DELETE /planets/<id>: db.session.delete(planet); db.session.commit()
delete_planet_commit(w) ==
  /\ AtCommit(w, "delete_planet")
  /\ LET loaded == req[w].loaded IN
       Transaction(w, users, NativeCharacters(characters, loaded.id),
                   {p \in planets : p.id # loaded.id},
                   favorite_characters,
                   PlanetOrphans(favorite_planets, loaded.id),
                   200, "deleted successfully", [name |-> loaded.name])
  /\ UNCHANGED <<backend, seq, now, admin>>

(* -------------------------- Favorite handlers ------------------------- *)
\* POST /favorite/planet/<id>, up to the existing-favorite pre-check
add_favorite_planet(w) ==
  /\ Free(w)
  /\ Reads
  /\ \E planet_id \in PathIds :
      LET r == Arrive(w, "add_favorite_planet", planet_id, NoCharacterBody, NoPlanetBody) IN
       IF ~UserGet(current_user_id)
       THEN Respond(w, r, 404, "User not found", NoData)
       ELSE IF PlanetGet(planet_id) = {}
       THEN Respond(w, r, 404, "Planet not found", NoData)
       ELSE IF FavoritePlanetBy(current_user_id, planet_id) # {}
       THEN Respond(w, r, 400, "Planet is already in favorites", NoData)
       ELSE Proceed(w, r, NoRow)

\* POST /favorite/planet/<id>: db.session.add(favorite); db.session.commit()
add_favorite_planet_commit(w) ==
  /\ AtCommit(w, "add_favorite_planet")
  /\ LET favorite == [id |-> NextId("favorite_planets", favorite_planets),
                      user_id |-> current_user_id,
                      planet_id |-> req[w].id,
                      created_at |-> now]
     IN Transaction(w, users, characters, planets, favorite_characters,
                    favorite_planets \cup {favorite},
                    201, "", FavoritePlanetSerialize(favorite, planets))
  /\ seq' = AdvanceSeq("favorite_planets")
  /\ UNCHANGED <<backend, now, admin>>

\* POST /favorite/people/<id>, up to the existing-favorite pre-check
add_favorite_people(w) ==
  /\ Free(w)
  /\ Reads
  /\ \E people_id \in PathIds :
      LET r == Arrive(w, "add_favorite_people", people_id, NoCharacterBody, NoPlanetBody) IN
       IF ~UserGet(current_user_id)
       THEN Respond(w, r, 404, "User not found", NoData)
       ELSE IF CharacterGet(people_id) = {}
       THEN Respond(w, r, 404, "Character not found", NoData)
       ELSE IF FavoriteCharacterBy(current_user_id, people_id) # {}
       THEN Respond(w, r, 400, "Character is already in favorites", NoData)
       ELSE Proceed(w, r, NoRow)

\* POST /favorite/people/<id>: db.session.add(favorite); db.session.commit()
add_favorite_people_commit(w) ==
  /\ AtCommit(w, "add_favorite_people")
  /\ LET favorite == [id |-> NextId("favorite_characters", favorite_characters),
                      user_id |-> current_user_id,
                      character_id |-> req[w].id,
                      created_at |-> now]
     IN Transaction(w, users, characters, planets,
                    favorite_characters \cup {favorite}, favorite_planets,
                    201, "", FavoriteCharacterSerialize(favorite, characters, planets))
  /\ seq' = AdvanceSeq("favorite_characters")
  /\ UNCHANGED <<backend, now, admin>>

\* DELETE /favorite/planet/<id>, up to the lookup (.first() of the matches)
delete_favorite_planet(w) ==
  /\ Free(w)
  /\ Reads
  /\ \E planet_id \in PathIds :
      LET r == Arrive(w, "delete_favorite_planet", planet_id, NoCharacterBody, NoPlanetBody)
         found == FavoritePlanetBy(current_user_id, planet_id)
     IN IF found = {}
        THEN Respond(w, r, 404, "Favorite planet not found", NoData)
        ELSE \E favorite \in found : Proceed(w, r, favorite)

\* DELETE /favorite/planet/<id>: db.session.delete(favorite); commit
delete_favorite_planet_commit(w) ==
  /\ AtCommit(w, "delete_favorite_planet")
  /\ Transaction(w, users, characters, planets, favorite_characters,
                 {f \in favorite_planets : f.id # req[w].loaded.id},
                 200, "Favorite planet deleted successfully", NoData)
  /\ UNCHANGED <<backend, seq, now, admin>>

\* DELETE /favorite/people/<id>, up to the lookup (.first() of the matches)
delete_favorite_people(w) ==
  /\ Free(w)
  /\ Reads
  /\ \E people_id \in PathIds :
      LET r == Arrive(w, "delete_favorite_people", people_id, NoCharacterBody, NoPlanetBody)
         found == FavoriteCharacterBy(current_user_id, people_id)
     IN IF found = {}
        THEN Respond(w, r, 404, "Favorite character not found", NoData)
        ELSE \E favorite \in found : Proceed(w, r, favorite)

\* DELETE /favorite/people/<id>: db.session.delete(favorite); commit
delete_favorite_people_commit(w) ==
  /\ AtCommit(w, "delete_favorite_people")
  /\ Transaction(w, users, characters, planets,
                 {f \in favorite_characters : f.id # req[w].loaded.id},
                 favorite_planets,
                 200, "Favorite character deleted successfully", NoData)
  /\ UNCHANGED <<backend, seq, now, admin>>

(* ------------------------------ User rows ----------------------------- *)
NextUserId == IF backend = "sqlite" THEN Max(users) + 1 ELSE seq["users"] + 1

\* a User row is inserted (no handler of app.py does it; the admin views do)
AddUser ==
  /\ now < MaxOps
  /\ now' = now + 1
  /\ CommitOrRollback(users \cup {NextUserId}, characters, planets,
                      favorite_characters, favorite_planets)
  /\ seq' = AdvanceSeq("users")
  /\ req' = Sent
  /\ admin' = [op |-> "AddUser", id |-> NextUserId, cascaded |-> 0]
  /\ UNCHANGED backend

\* User.favorite_characters: cascade='all, delete-orphan'
UserFavoriteCharactersCascade_none(fcs, user_id) == fcs
UserFavoriteCharactersCascade(fcs, user_id) == {f \in fcs : f.user_id # user_id}

\* User.favorite_planets: cascade='all, delete-orphan'
UserFavoritePlanetsCascade(fps, user_id) == {f \in fps : f.user_id # user_id}

\* a User row is deleted through the session: its favorites go with it
DeleteUser ==
  /\ now < MaxOps
  /\ now' = now + 1
  /\ \E user_id \in users :
       /\ CommitOrRollback(users \ {user_id}, characters, planets,
                           UserFavoriteCharactersCascade(favorite_characters, user_id),
                           UserFavoritePlanetsCascade(favorite_planets, user_id))
       /\ admin' = [op |-> "DeleteUser", id |-> user_id,
                    cascaded |-> Cardinality({f \in favorite_characters : f.user_id = user_id})
                                 + Cardinality({f \in favorite_planets : f.user_id = user_id})]
  /\ req' = Sent
  /\ UNCHANGED <<backend, seq>>

(* --------------------------- specifications --------------------------- *)
Begin(w) ==
  \/ create_person(w)
  \/ update_person(w)
  \/ delete_person(w)
  \/ create_planet(w)
  \/ update_planet(w)
  \/ delete_planet(w)
  \/ add_favorite_planet(w)
  \/ add_favorite_people(w)
  \/ delete_favorite_planet(w)
  \/ delete_favorite_people(w)

End(w) ==
  \/ create_person_commit(w)
  \/ update_person_commit(w)
  \/ delete_person_commit(w)
  \/ create_planet_commit(w)
  \/ update_planet_commit(w)
  \/ delete_planet_commit(w)
  \/ add_favorite_planet_commit(w)
  \/ add_favorite_people_commit(w)
  \/ delete_favorite_planet_commit(w)
  \/ delete_favorite_people_commit(w)

Admin ==
  \/ AddUser
  \/ DeleteUser

\* requests of the workers interleave freely
Next ==
  \/ \E w \in Workers : Begin(w)
  \/ \E w \in Workers : End(w)
  \/ Admin

Spec == Init /\ [][Next]_vars

\* no request is in flight
Quiet == \A w \in Workers : req[w].pc # "commit"

\* one request at a time: a request starts only when none is in flight
NextSeq ==
  \/ Quiet /\ \E w \in Workers : Begin(w)
  \/ \E w \in Workers : End(w)
  \/ Quiet /\ Admin

SpecSeq == Init /\ [][NextSeq]_vars

(* ------------------------------ properties ---------------------------- *)
\* a request arrives at worker w in this step
Arrived(w) == now' = now + 1 /\ req[w].pc # "commit" /\ req'[w].pc # "idle"

\* worker w's commit runs in this step
Completed(w) == req[w].pc = "commit" /\ req'[w].pc = "done"

Done(w, op) == req[w].pc = "done" /\ req[w].op = op

FavoriteCharacterCount(user_id, character_id) ==
  Cardinality({f \in favorite_characters :
                 f.user_id = user_id /\ f.character_id = character_id})

FavoritePlanetCount(user_id, planet_id) ==
  Cardinality({f \in favorite_planets :
                 f.user_id = user_id /\ f.planet_id = planet_id})

\* C1 as stated: a POST /people or POST /planets whose body name equals the
\* name of a stored row of that type returns 400 with the "already exists"
\* message and leaves every table as it was.
C1_DuplicateNameAlreadyExists ==
  [][\A w \in Workers :
       /\ (/\ Arrived(w)
           /\ req'[w].op = "create_person"
           /\ \E c \in characters : c.name = req'[w].cbody.name)
          => /\ req'[w].pc = "done"
             /\ req'[w].status = 400
             /\ req'[w].msg = "Character with this name already exists"
             /\ tables' = tables
       /\ (/\ Arrived(w)
           /\ req'[w].op = "create_planet"
           /\ \E p \in planets : p.name = req'[w].pbody.name)
          => /\ req'[w].pc = "done"
             /\ req'[w].status = 400
             /\ req'[w].msg = "Planet with this name already exists"
             /\ tables' = tables]_vars

\* C1 amended: such a request returns 400 and leaves every table as it was;
\* the message is "... with this name already exists" when the name is
\* non-empty and "Name is required" when the stored and posted name is "".
C1_DuplicateNameRejected ==
  [][\A w \in Workers :
       /\ (/\ Arrived(w)
           /\ req'[w].op = "create_person"
           /\ \E c \in characters : c.name = req'[w].cbody.name)
          => /\ req'[w].pc = "done"
             /\ req'[w].status = 400
             /\ req'[w].msg = IF req'[w].cbody.name = ""
                              THEN "Name is required"
                              ELSE "Character with this name already exists"
             /\ tables' = tables
       /\ (/\ Arrived(w)
           /\ req'[w].op = "create_planet"
           /\ \E p \in planets : p.name = req'[w].pbody.name)
          => /\ req'[w].pc = "done"
             /\ req'[w].status = 400
             /\ req'[w].msg = IF req'[w].pbody.name = ""
                              THEN "Name is required"
                              ELSE "Planet with this name already exists"
             /\ tables' = tables]_vars

\* a POST /people was answered 400 "already exists" for a stored name
C1_Witness ==
  \E w \in Workers :
    /\ Done(w, "create_person")
    /\ req[w].status = 400
    /\ req[w].msg = "Character with this name already exists"
    /\ \E c \in characters : c.name = req[w].cbody.name

\* C2: with requests served one at a time, an add-favorite for an existing
\* target that user 1 has not favorited returns 201 and leaves one row for
\* the pair; the add-favorite for the same target that directly follows it
\* returns 400 "is already in favorites" and still one row exists.
C2_FavoriteTwice ==
  [][\A w \in Workers :
       /\ (/\ Arrived(w)
           /\ req'[w].op = "add_favorite_people"
           /\ current_user_id \in users
           /\ \E c \in characters : c.id = req'[w].id
           /\ FavoriteCharacterCount(current_user_id, req'[w].id) = 0)
          => req'[w].pc = "commit"
       /\ (Completed(w) /\ req[w].op = "add_favorite_people")
          => /\ req'[w].status = 201
             /\ FavoriteCharacterCount(current_user_id, req[w].id)' = 1
       /\ \A v \in Workers :
            (/\ Done(v, "add_favorite_people")
             /\ req[v].status = 201
             /\ Arrived(w)
             /\ req'[w].op = "add_favorite_people"
             /\ req'[w].id = req[v].id)
            => /\ req'[w].pc = "done"
               /\ req'[w].status = 400
               /\ req'[w].msg = "Character is already in favorites"
               /\ FavoriteCharacterCount(current_user_id, req[v].id)' = 1
       /\ (/\ Arrived(w)
           /\ req'[w].op = "add_favorite_planet"
           /\ current_user_id \in users
           /\ \E p \in planets : p.id = req'[w].id
           /\ FavoritePlanetCount(current_user_id, req'[w].id) = 0)
          => req'[w].pc = "commit"
       /\ (Completed(w) /\ req[w].op = "add_favorite_planet")
          => /\ req'[w].status = 201
             /\ FavoritePlanetCount(current_user_id, req[w].id)' = 1
       /\ \A v \in Workers :
            (/\ Done(v, "add_favorite_planet")
             /\ req[v].status = 201
             /\ Arrived(w)
             /\ req'[w].op = "add_favorite_planet"
             /\ req'[w].id = req[v].id)
            => /\ req'[w].pc = "done"
               /\ req'[w].status = 400
               /\ req'[w].msg = "Planet is already in favorites"
               /\ FavoritePlanetCount(current_user_id, req[v].id)' = 1]_vars

\* the second of two add-favorite requests was answered 400, one row stored
C2_Witness ==
  \E w \in Workers :
    /\ Done(w, "add_favorite_people")
    /\ req[w].status = 400
    /\ req[w].msg = "Character is already in favorites"
    /\ FavoriteCharacterCount(current_user_id, req[w].id) = 1

\* C3: in every reachable state, under any interleaving of requests, each
\* (user_id, character_id) pair and each (user_id, planet_id) pair has at
\* most one favorite row.
C3_FavoritePairUnique ==
  /\ \A f \in favorite_characters :
       FavoriteCharacterCount(f.user_id, f.character_id) <= 1
  /\ \A f \in favorite_planets :
       FavoritePlanetCount(f.user_id, f.planet_id) <= 1

\* two add-favorite requests for one target both passed the pre-check; one
\* committed, the store rejected the other
C3_Witness ==
  \E w, v \in Workers :
    /\ Done(w, "add_favorite_people") /\ req[w].status = 201
    /\ Done(v, "add_favorite_people") /\ req[v].status = 500
    /\ req[w].id = req[v].id
    /\ FavoriteCharacterCount(current_user_id, req[w].id) = 1

\* C4 as stated: of two add-favorite requests for the same target that were
\* in flight together (both passed the pre-check), when one got 201 the
\* other gets 400 "... is already in favorites".
C4_RacingDuplicateGetsConflict ==
  \A w, v \in Workers :
    /\ (/\ w # v
        /\ Done(w, "add_favorite_people") /\ Done(v, "add_favorite_people")
        /\ req[w].id = req[v].id
        /\ req[w].status = 201)
       => (req[v].status = 400 /\ req[v].msg = "Character is already in favorites")
    /\ (/\ w # v
        /\ Done(w, "add_favorite_planet") /\ Done(v, "add_favorite_planet")
        /\ req[w].id = req[v].id
        /\ req[w].status = 201)
       => (req[v].status = 400 /\ req[v].msg = "Planet is already in favorites")

\* C5 as stated: after two POST /people (or two POST /planets) with the same
\* name that were in flight together (both ran the by-name pre-check before
\* either committed) have completed, at most one row has that name.
C5_RacingCreatesOneRow ==
  \A w, v \in Workers :
    /\ (/\ w # v
        /\ Done(w, "create_person") /\ Done(v, "create_person")
        /\ req[w].cbody.name = req[v].cbody.name)
       => Cardinality({c \in characters : c.name = req[w].cbody.name}) <= 1
    /\ (/\ w # v
        /\ Done(w, "create_planet") /\ Done(v, "create_planet")
        /\ req[w].pbody.name = req[v].pbody.name)
       => Cardinality({p \in planets : p.name = req[w].pbody.name}) <= 1

\* C6 as stated: with requests served one at a time, after a PUT on an
\* existing Character or Planet with a non-empty body, the row's fields whose
\* key is in the body equal the body's values, its other fields, id and
\* created_at equal their values before, and no other row of any table
\* changed.
C6_UpdateSetsSuppliedFields ==
  [][\A w \in Workers :
       /\ (Completed(w) /\ req[w].op = "update_person")
          => \E old \in characters, new \in characters' :
               LET body == req[w].cbody IN
               /\ old.id = req[w].id /\ new.id = req[w].id
               /\ new.name = IF body.name # Absent THEN body.name ELSE old.name
               /\ new.homeworld_id = IF body.homeworld_id # AbsentId
                                     THEN body.homeworld_id ELSE old.homeworld_id
               /\ new.created_at = old.created_at
               /\ characters' \ {new} = characters \ {old}
               /\ UNCHANGED <<users, planets, favorite_characters, favorite_planets>>
       /\ (Completed(w) /\ req[w].op = "update_planet")
          => \E old \in planets, new \in planets' :
               LET body == req[w].pbody IN
               /\ old.id = req[w].id /\ new.id = req[w].id
               /\ new.name = IF body.name # Absent THEN body.name ELSE old.name
               /\ new.climate = IF body.climate # Absent THEN body.climate ELSE old.climate
               /\ new.created_at = old.created_at
               /\ planets' \ {new} = planets \ {old}
               /\ UNCHANGED <<users, characters, favorite_characters, favorite_planets>>]_vars

\* C6 amended: the same, for a PUT that returns 200; a PUT whose commit the
\* store rejects returns 500 and changes no row of any table.
C6_UpdateFrame ==
  [][\A w \in Workers :
       /\ (Completed(w) /\ req[w].op = "update_person" /\ req'[w].status = 200)
          => \E old \in characters, new \in characters' :
               LET body == req[w].cbody IN
               /\ old.id = req[w].id /\ new.id = req[w].id
               /\ new.name = IF body.name # Absent THEN body.name ELSE old.name
               /\ new.homeworld_id = IF body.homeworld_id # AbsentId
                                     THEN body.homeworld_id ELSE old.homeworld_id
               /\ new.created_at = old.created_at
               /\ characters' \ {new} = characters \ {old}
               /\ UNCHANGED <<users, planets, favorite_characters, favorite_planets>>
       /\ (Completed(w) /\ req[w].op = "update_planet" /\ req'[w].status = 200)
          => \E old \in planets, new \in planets' :
               LET body == req[w].pbody IN
               /\ old.id = req[w].id /\ new.id = req[w].id
               /\ new.name = IF body.name # Absent THEN body.name ELSE old.name
               /\ new.climate = IF body.climate # Absent THEN body.climate ELSE old.climate
               /\ new.created_at = old.created_at
               /\ planets' \ {new} = planets \ {old}
               /\ UNCHANGED <<users, characters, favorite_characters, favorite_planets>>
       /\ (/\ Completed(w)
           /\ req[w].op \in {"update_person", "update_planet"}
           /\ req'[w].status # 200)
          => (req'[w].status = 500 /\ tables' = tables)]_vars

\* a PUT that names only `name` was answered 200 on a row whose homeworld_id
\* had been set before: the name is the body's, the homeworld_id is kept
C6_Witness ==
  \E w \in Workers :
    /\ Done(w, "update_person")
    /\ req[w].status = 200
    /\ req[w].cbody.name # Absent
    /\ req[w].cbody.homeworld_id = AbsentId
    /\ \E c \in characters :
         c.id = req[w].id /\ c.name = req[w].cbody.name /\ c.homeworld_id = 1

\* C7: a step that deletes a User row leaves no favorite row of that user
\* and leaves the favorite rows of every other user as they were.
C7_UserDeleteCascades ==
  [][\A u \in users :
       u \notin users' =>
         /\ \A f \in favorite_characters' : f.user_id # u
         /\ \A f \in favorite_planets' : f.user_id # u
         /\ {f \in favorite_characters' : f.user_id # u}
              = {f \in favorite_characters : f.user_id # u}
         /\ {f \in favorite_planets' : f.user_id # u}
              = {f \in favorite_planets : f.user_id # u}]_vars

\* a user that had favorite rows has just been deleted
C7_Witness ==
  /\ admin.op = "DeleteUser"
  /\ admin.cascaded > 0
  /\ admin.id \notin users
  /\ \A f \in favorite_characters \cup favorite_planets : f.user_id # admin.id

\* C8: a step in which a request of a mutating handler arrives or completes
\* changes a table only if the request completes with 200 or 201; a request
\* answered 400, 404 or 500 (also when its commit fails) has written nothing.
C8_ErrorLeavesStoreUnchanged ==
  [][\A w \in Workers :
       ((Arrived(w) \/ Completed(w))
        /\ ~(req'[w].pc = "done" /\ req'[w].status \in {200, 201}))
       => tables' = tables]_vars

\* the commit of a DELETE /planets/<id> failed with 500 after its flush had
\* touched the planet's favorites, and the planet is still stored
C8_Witness ==
  \E w \in Workers :
    /\ Done(w, "delete_planet")
    /\ req[w].status = 500
    /\ \E p \in planets : p.id = req[w].id
    /\ \E f \in favorite_planets : f.planet_id = req[w].id

\* C9 as stated: with requests served one at a time, a PUT on an existing
\* Character or Planet with a non-empty body returns 200 with the serialized
\* updated row, whatever the body holds.  (A finished update request keeps
\* a non-empty body only if the row existed.)
C9_UpdateAlwaysSucceeds ==
  \A w \in Workers :
    /\ (Done(w, "update_person") /\ CharacterBodyTruthy(req[w].cbody))
       => /\ req[w].status = 200
          /\ \E c \in characters :
               c.id = req[w].id /\ req[w].data = CharacterSerialize(c, planets)
    /\ (Done(w, "update_planet") /\ PlanetBodyTruthy(req[w].pbody))
       => /\ req[w].status = 200
          /\ \E p \in planets :
               p.id = req[w].id /\ req[w].data = PlanetSerialize(p)

\* the store rejects the updated row: name set to null, or homeworld_id set
\* to a planet that does not exist on a store that enforces foreign keys
CharacterUpdateRejected(body) ==
  \/ body.name = Null
  \/ /\ backend = "postgresql"
     /\ body.homeworld_id \notin {AbsentId, NullId}
     /\ \A p \in planets : p.id # body.homeworld_id

\* C9 amended: such a PUT returns 200 with the serialized updated row when
\* the store accepts the updated row (an empty-string name included); when
\* the store rejects it (name null; homeworld_id of no planet under enforced
\* foreign keys) it returns 500.
C9_UpdateSucceedsIfAccepted ==
  \A w \in Workers :
    /\ (Done(w, "update_person") /\ CharacterBodyTruthy(req[w].cbody))
       => IF CharacterUpdateRejected(req[w].cbody)
          THEN req[w].status = 500
          ELSE /\ req[w].status = 200
               /\ \E c \in characters :
                    c.id = req[w].id /\ req[w].data = CharacterSerialize(c, planets)
    /\ (Done(w, "update_planet") /\ PlanetBodyTruthy(req[w].pbody))
       => IF req[w].pbody.name = Null
          THEN req[w].status = 500
          ELSE /\ req[w].status = 200
               /\ \E p \in planets :
                    p.id = req[w].id /\ req[w].data = PlanetSerialize(p)

\* a PUT that sets name to "" was answered 200 and the row has that name
C9_Witness ==
  \E w \in Workers :
    /\ Done(w, "update_person")
    /\ req[w].cbody.name = ""
    /\ req[w].status = 200
    /\ \E c \in characters : c.id = req[w].id /\ c.name = ""

\* C10: an add-favorite request returns 404 "User not found" when user 1
\* does not exist, whether or not the target exists; else 404 "Planet not
\* found" / "Character not found" when the target does not exist; in both
\* cases the request is over and no table has changed.
C10_AddFavoriteNotFound ==
  [][\A w \in Workers :
       /\ (Arrived(w) /\ req'[w].op = "add_favorite_planet")
          => /\ current_user_id \notin users
                => /\ req'[w].pc = "done" /\ req'[w].status = 404
                   /\ req'[w].msg = "User not found"
                   /\ tables' = tables
             /\ (/\ current_user_id \in users
                 /\ \A p \in planets : p.id # req'[w].id)
                => /\ req'[w].pc = "done" /\ req'[w].status = 404
                   /\ req'[w].msg = "Planet not found"
                   /\ tables' = tables
       /\ (Arrived(w) /\ req'[w].op = "add_favorite_people")
          => /\ current_user_id \notin users
                => /\ req'[w].pc = "done" /\ req'[w].status = 404
                   /\ req'[w].msg = "User not found"
                   /\ tables' = tables
             /\ (/\ current_user_id \in users
                 /\ \A c \in characters : c.id # req'[w].id)
                => /\ req'[w].pc = "done" /\ req'[w].status = 404
                   /\ req'[w].msg = "Character not found"
                   /\ tables' = tables]_vars

\* user 1 is missing while the target planet exists: "User not found"
C10_Witness ==
  \E w \in Workers :
    /\ Done(w, "add_favorite_planet")
    /\ req[w].status = 404
    /\ req[w].msg = "User not found"
    /\ current_user_id \notin users
    /\ \E p \in planets : p.id = req[w].id
    /\ favorite_planets = {}

\* the (user, target) pairs the favorite tables hold
FavoriteCharacterPairs == {<<f.user_id, f.character_id>> : f \in favorite_characters}
FavoritePlanetPairs == {<<f.user_id, f.planet_id>> : f \in favorite_planets}

\* C11: a DELETE /favorite/planet/{id} or DELETE /favorite/people/{id} that
\* finds no favorite row of user 1 for the target returns 404 and changes no
\* table; one that finds a row goes on to its commit, which returns 200 and
\* removes exactly that row: users, characters, planets, the other favorite
\* table and every other row of its own table stay as they were.  The pair
\* (1, id) leaves the set of pairs, and a successful add-favorite had added
\* exactly that pair, so add followed by remove restores the set of pairs.
C11_RemoveFavorite ==
  [][\A w \in Workers :
       /\ (Arrived(w) /\ req'[w].op = "delete_favorite_planet")
          => /\ tables' = tables
             /\ IF <<current_user_id, req'[w].id>> \in FavoritePlanetPairs
                THEN req'[w].pc = "commit"
                ELSE /\ req'[w].pc = "done" /\ req'[w].status = 404
                     /\ req'[w].msg = "Favorite planet not found"
       /\ (Completed(w) /\ req[w].op = "delete_favorite_planet")
          => /\ req'[w].status = 200
             /\ req'[w].msg = "Favorite planet deleted successfully"
             /\ \E f \in favorite_planets :
                  /\ f.user_id = current_user_id /\ f.planet_id = req[w].id
                  /\ favorite_planets' = favorite_planets \ {f}
             /\ FavoritePlanetPairs' =
                  FavoritePlanetPairs \ {<<current_user_id, req[w].id>>}
             /\ UNCHANGED <<users, characters, planets, favorite_characters>>
       /\ (Arrived(w) /\ req'[w].op = "delete_favorite_people")
          => /\ tables' = tables
             /\ IF <<current_user_id, req'[w].id>> \in FavoriteCharacterPairs
                THEN req'[w].pc = "commit"
                ELSE /\ req'[w].pc = "done" /\ req'[w].status = 404
                     /\ req'[w].msg = "Favorite character not found"
       /\ (Completed(w) /\ req[w].op = "delete_favorite_people")
          => /\ req'[w].status = 200
             /\ req'[w].msg = "Favorite character deleted successfully"
             /\ \E f \in favorite_characters :
                  /\ f.user_id = current_user_id /\ f.character_id = req[w].id
                  /\ favorite_characters' = favorite_characters \ {f}
             /\ FavoriteCharacterPairs' =
                  FavoriteCharacterPairs \ {<<current_user_id, req[w].id>>}
             /\ UNCHANGED <<users, characters, planets, favorite_planets>>
       /\ (Completed(w) /\ req[w].op = "add_favorite_planet"
                        /\ req'[w].status = 201)
          => /\ <<current_user_id, req[w].id>> \notin FavoritePlanetPairs
             /\ FavoritePlanetPairs' =
                  FavoritePlanetPairs \cup {<<current_user_id, req[w].id>>}
       /\ (Completed(w) /\ req[w].op = "add_favorite_people"
                        /\ req'[w].status = 201)
          => /\ <<current_user_id, req[w].id>> \notin FavoriteCharacterPairs
             /\ FavoriteCharacterPairs' =
                  FavoriteCharacterPairs \cup {<<current_user_id, req[w].id>>}]_vars

\* user 1's favorite of planet 1 was removed with 200 while user 2's favorite
\* of the same planet and user 1's favorite character are still stored
C11_Witness ==
  \E w \in Workers :
    /\ Done(w, "delete_favorite_planet")
    /\ req[w].status = 200
    /\ <<current_user_id, req[w].id>> \notin FavoritePlanetPairs
    /\ <<2, req[w].id>> \in FavoritePlanetPairs
    /\ favorite_characters = SeedFavoriteCharacters
    /\ \E p \in planets : p.id = req[w].id

\* C12: with requests served one at a time, no two Character rows have the
\* same name and no two Planet rows have the same name; a PUT that sets name
\* cannot make it the name of another stored row.
C12_NamesUnique ==
  /\ \A c, d \in characters : c.name = d.name => c.id = d.id
  /\ \A p, q \in planets : p.name = q.name => p.id = q.id

\* C13: in every reachable state every FavoriteCharacter row references a
\* stored User and a stored Character and every FavoritePlanet row a stored
\* User and a stored Planet; no delete of a Character or Planet leaves a
\* favorite row whose target is missing or null.
C13_FavoritesReferenceStoredRows ==
  /\ \A f \in favorite_characters :
       f.user_id \in users /\ f.character_id \in Ids(characters)
  /\ \A f \in favorite_planets :
       f.user_id \in users /\ f.planet_id \in Ids(planets)

====
